---- MODULE Spec2Model ----
(***************************************************************************)
(* The autoshengji bot (src/main.rs): the phase controller of main() and   *)
(* the trick-following play resolution of its Play phase.                  *)
(*                                                                         *)
(* Spec      the receive-decide-send loop of main(), one step per envelope *)
(*           read from the socket.                                         *)
(* SpecTrick the play resolution of one Play snapshot that names the bot   *)
(*           as next player, over a wider universe of hands and formats.   *)
(***************************************************************************)
EXTENDS Integers, Sequences, FiniteSets, TLC

(***************************************************************************)
(* Bounds                                                                  *)
(***************************************************************************)
\* player ids handed out by the server
MaxPlayers == 2
\* ranks per effective suit
MaxRank == 3
\* copies of one card (number of decks)
MaxCount == 2
\* cards in a hand of SpecTrick
MaxHand == 4
\* cards in a hand of a Play snapshot of Spec
CtlMaxHand == 1
\* units of a trick format
MaxUnits == 2
\* entries of a format's decomposition
MaxDecomp == 2

(***************************************************************************)
(* Players and rosters                                                     *)
(***************************************************************************)
\* argv.name, the name the bot joined with
Name == "autoshengji"

OtherName == "human"

PlayerIDs == 1..MaxPlayers

Players == [id : PlayerIDs, name : {Name, OtherName}]

\* the value of `me` before the roster lookup
NoPlayer == [id |-> 0, name |-> ""]

\* i.players(): the roster of an Initialize snapshot, ids unique
Rosters ==
    {r \in UNION {[1..n -> Players] : n \in 0..MaxPlayers} :
        \A i, j \in DOMAIN r : i # j => r[i].id # r[j].id}

\* Option<PlayerID>
NoneID == [some |-> FALSE, id |-> 0]

SomeID(p) == [some |-> TRUE, id |-> p]

OptionIDs == {NoneID} \cup {SomeID(p) : p \in PlayerIDs}

(***************************************************************************)
(* Cards, hands, trick formats                                             *)
(***************************************************************************)
\* effective (trump-relative) suits
Suits == {"S", "H"}

Cards == [suit : Suits, rank : 1..MaxRank]

\* trick_format.trump().effective_suit(card)
EffectiveSuit(c) == c.suit

EmptyBag == [c \in Cards |-> 0]

RECURSIVE SumCounts(_, _)
SumCounts(b, S) ==
    IF S = {} THEN 0
    ELSE LET c == CHOOSE x \in S : TRUE
         IN  b[c] + SumCounts(b, S \ {c})

\* Vec::len of a card list kept as card counts
BagSize(b) == SumCounts(b, Cards)

BagAdd(a, b) == [c \in Cards |-> a[c] + b[c]]

BagSub(a, b) == [c \in Cards |-> a[c] - b[c]]

BagLeq(a, b) == \A c \in Cards : a[c] <= b[c]

\* the sub-multisets of b holding n cards, taken over the card types S
RECURSIVE SubBagsOver(_, _, _)
SubBagsOver(b, n, S) ==
    IF n = 0 THEN {EmptyBag}
    ELSE IF S = {} THEN {}
    ELSE LET c == CHOOSE x \in S : TRUE
             top == IF b[c] < n THEN b[c] ELSE n
         IN  UNION {{[r EXCEPT ![c] = j] : r \in SubBagsOver(b, n - j, S \ {c})} :
                        j \in 0..top}

\* cards.shuffle(rng); cards[0..n]: any n of the cards; none when n > cards.len()
FirstOfShuffle(b, n) == SubBagsOver(b, n, Cards)

\* a unit shape: `length` adjacent cards, `count` copies of each
UnitSize(u) == u.count * u.length

UnitShapes ==
    {u \in [count : 1..MaxCount, length : 1..MaxRank] :
        /\ u.length > 1 => u.count >= 2
        /\ UnitSize(u) <= MaxHand}

RECURSIVE ListSize(_)
ListSize(l) == IF l = <<>> THEN 0 ELSE UnitSize(Head(l)) + ListSize(Tail(l))

\* unit-shape lists, largest unit first
UnitLists ==
    {l \in UNION {[1..n -> UnitShapes] : n \in 1..MaxUnits} :
        /\ ListSize(l) <= MaxHand
        /\ \A i \in 1..(Len(l) - 1) :
              \/ UnitSize(l[i]) > UnitSize(l[i + 1])
              \/ UnitSize(l[i]) = UnitSize(l[i + 1]) /\ l[i].length >= l[i + 1].length}

\* trick.trick_format(): None until a first play exists
NoFormat == [some |-> FALSE, suit |-> "", units |-> <<>>]

SomeFormat(s, l) == [some |-> TRUE, suit |-> s, units |-> l]

\* trick_format.size()
FormatSize(f) == ListSize(f.units)

\* trick_format.decomposition(policy): the format's own units first, then the
\* weaker unit lists the draw policy allows. The lists are the library's; what
\* is kept of them is that none holds more cards than the format or a unit
\* larger than the format's largest.
Decompositions(l) ==
    LET weaker == {w \in UnitLists :
                     /\ w # l
                     /\ ListSize(w) <= ListSize(l)
                     /\ UnitSize(w[1]) <= UnitSize(l[1])}
    IN  {<<l>> \o t : t \in UNION {[1..n -> weaker] : n \in 0..(MaxDecomp - 1)}}

HandsUpTo(n) == {h \in [Cards -> 0..MaxCount] : BagSize(h) <= n}

\* what the Play branch reads of a snapshot whose next player is the bot: the
\* bot's hand, the trick's format and the format's decomposition
\* played is trick.played_cards().len(): 0 exactly when the trick has no format
LeadTurns(hands) ==
    {[hand |-> h, played |-> 0, trick_format |-> NoFormat, decomposition |-> <<>>] :
        h \in hands}

FollowTurns(hands) ==
    UNION {UNION {UNION {
        {[hand |-> h, played |-> 1, trick_format |-> SomeFormat(s, l),
          decomposition |-> d] :
            d \in Decompositions(l)} :
        l \in {x \in UnitLists : ListSize(x) <= BagSize(h)}} :
        s \in Suits} :
        h \in hands}

NoTurn ==
    [hand |-> EmptyBag, played |-> 0, trick_format |-> NoFormat, decomposition |-> <<>>]

CtlTurns == LeadTurns(HandsUpTo(CtlMaxHand)) \cup FollowTurns(HandsUpTo(CtlMaxHand))

(***************************************************************************)
(* Trick resolution (main, Play branch)                                    *)
(***************************************************************************)
\* the cards of unit shape u placed at card c: c and its successors, u.count each
UnitCards(u, c) ==
    [d \in Cards |->
        IF d.suit = c.suit /\ d.rank >= c.rank /\ d.rank < c.rank + u.length
        THEN u.count ELSE 0]

UnitFits(u, c, cards) ==
    /\ c.rank + u.length - 1 <= MaxRank
    /\ BagLeq(UnitCards(u, c), cards)

\* UnitLike::check_play(cards, format, policy): the ways to take every unit of
\* the format out of `cards`, each flattened to its cards. It is given the card
\* counts and the unit shapes, and no suit.
RECURSIVE CheckPlay(_, _)
CheckPlay(cards, format) ==
    IF format = <<>> THEN {EmptyBag}
    ELSE UNION {{BagAdd(UnitCards(Head(format), c), r) :
                    r \in CheckPlay(BagSub(cards, UnitCards(Head(format), c)),
                                    Tail(format))} :
                c \in {x \in Cards : UnitFits(Head(format), x, cards)}}

\* Option<Vec<Card>>
NoMatch == [some |-> FALSE, cards |-> EmptyBag]

SomeMatch(m) == [some |-> TRUE, cards |-> m]

\* matching_play: the first assignment of the first decomposition that
\* check_play can satisfy from current_hand, or None
RECURSIVE MatchingPlay(_, _)
MatchingPlay(current_hand, decomposition) ==
    IF decomposition = <<>> THEN {NoMatch}
    ELSE LET playable == CheckPlay(current_hand, Head(decomposition))
         IN  IF playable # {} THEN {SomeMatch(m) : m \in playable}
             ELSE MatchingPlay(current_hand, Tail(decomposition))

\* cards_in_trick_suit
CardsInTrickSuit(current_hand, trick_format) ==
    [c \in Cards |->
        IF EffectiveSuit(c) = trick_format.suit THEN current_hand[c] ELSE 0]

\* other_cards
OtherCards(current_hand, trick_format) ==
    [c \in Cards |->
        IF EffectiveSuit(c) # trick_format.suit THEN current_hand[c] ELSE 0]

\* the result of one resolution: ok is FALSE when the thread panicked, at names
\* the place; selected is `play` before the fill with other cards
Aborted(where, m, sel) ==
    [ok |-> FALSE, at |-> where, matching_play |-> m, selected |-> sel,
     play |-> EmptyBag]

Resolved(m, sel, p) ==
    [ok |-> TRUE, at |-> "send", matching_play |-> m, selected |-> sel, play |-> p]

NoResult == Aborted("none", NoMatch, EmptyBag)

\* let mut play = match matching_play { ... }
SelectPlay(m, cards_in_trick_suit, num_required) ==
    IF ~m.some THEN {Resolved(m, cards_in_trick_suit, EmptyBag)}
    ELSE IF BagSize(m.cards) = num_required THEN {Resolved(m, m.cards, EmptyBag)}
    ELSE IF num_required >= BagSize(cards_in_trick_suit)
    THEN {Resolved(m, cards_in_trick_suit, EmptyBag)}
    \* position(..).unwrap() panics on a matched card that is not in the suit
    ELSE IF ~BagLeq(m.cards, cards_in_trick_suit)
    THEN {Aborted("remove", m, EmptyBag)}
    \* num_required - matching.len() on usize: a panic, or a wrapped slice end
    ELSE IF num_required < BagSize(m.cards) THEN {Aborted("extend", m, EmptyBag)}
    ELSE {Resolved(m, BagAdd(m.cards, e), EmptyBag) :
            e \in FirstOfShuffle(BagSub(cards_in_trick_suit, m.cards),
                                 num_required - BagSize(m.cards))}

\* required_other_cards and the fill from other_cards. num_required - play.len()
\* is a usize subtraction: below zero it panics (overflow checks) or wraps to a
\* slice end beyond other_cards, which panics as well.
FillOther(r, other_cards, num_required) ==
    IF ~r.ok THEN {r}
    ELSE IF num_required < BagSize(r.selected)
    THEN {Aborted("required_other_cards", r.matching_play, r.selected)}
    ELSE IF num_required - BagSize(r.selected) > 0
    THEN IF num_required - BagSize(r.selected) > BagSize(other_cards)
         THEN {Aborted("other_cards", r.matching_play, r.selected)}
         ELSE {Resolved(r.matching_play, r.selected, BagAdd(r.selected, e)) :
                 e \in FirstOfShuffle(other_cards,
                                      num_required - BagSize(r.selected))}
    ELSE {Resolved(r.matching_play, r.selected, r.selected)}

\* Some(trick_format) => { ... }
FollowTrick(t) ==
    IF ~(t.played > 0) THEN {Aborted("assert", NoMatch, EmptyBag)}
    ELSE UNION {UNION {
            FillOther(r, OtherCards(t.hand, t.trick_format), FormatSize(t.trick_format)) :
            r \in SelectPlay(m, CardsInTrickSuit(t.hand, t.trick_format),
                             FormatSize(t.trick_format))} :
            m \in MatchingPlay(t.hand, t.decomposition)}

\* None => { ... }: current_hand.choose(rng).unwrap()
LeadTrick(t) ==
    IF ~(t.played = 0) THEN {Aborted("assert", NoMatch, EmptyBag)}
    ELSE IF BagSize(t.hand) = 0 THEN {Aborted("choose", NoMatch, EmptyBag)}
    ELSE {Resolved(NoMatch, EmptyBag, [EmptyBag EXCEPT ![c] = 1]) :
            c \in {x \in Cards : t.hand[x] >= 1}}

\* match trick.trick_format() { ... }
PlayTurn(t) == IF t.trick_format.some THEN FollowTrick(t) ELSE LeadTrick(t)

(***************************************************************************)
(* Envelopes and outgoing messages                                         *)
(***************************************************************************)
\* p.next_player() of a Draw snapshot: Ok(id) or Err(e)
OkDraw(p) == [ok |-> TRUE, id |-> p, err |-> ""]

ErrDraw(e) == [ok |-> FALSE, id |-> 0, err |-> e]

DrawErrors == {"nobody has bid yet", "not enough players"}

DrawResults == {OkDraw(p) : p \in PlayerIDs} \cup {ErrDraw(e) : e \in DrawErrors}

\* GameState, as far as main() branches on it: the variant, the roster of
\* Initialize, the next drawer of Draw, the trick's next player of Play
State(ph, r, d, n) == [phase |-> ph, players |-> r, next_draw |-> d, next_player |-> n]

NoState == State("none", <<>>, ErrDraw(""), NoneID)

InitializeStates == {State("Initialize", r, ErrDraw(""), NoneID) : r \in Rosters}

DrawStates == {State("Draw", <<>>, d, NoneID) : d \in DrawResults}

ExchangeStates == {State("Exchange", <<>>, ErrDraw(""), NoneID)}

PlayStates == {State("Play", <<>>, ErrDraw(""), n) : n \in OptionIDs}

GameStates == InitializeStates \cup DrawStates \cup ExchangeStates \cup PlayStates

\* UserMessage; text is the text of a UserMessage::Message, "" otherwise
Ready == [type |-> "Ready", cards |-> EmptyBag, text |-> ""]

DrawCard == [type |-> "DrawCard", cards |-> EmptyBag, text |-> ""]

PlayCards(p) == [type |-> "PlayCards", cards |-> p, text |-> ""]

\* the three texts the bot chats
JoinedText == "Beep boop, I'm a bot! I just joined"

AlreadyStartedText == "It looks like the game has already started"

\* format!("Whoops, something went wrong! The error message is {:?}. ..", err)
ErrorText == "Whoops, something went wrong! The error message is err"

\* socket.chat(msg): UserMessage::Message(msg)
Chat(text) == [type |-> "Message", cards |-> EmptyBag, text |-> text]

(***************************************************************************)
(* State                                                                   *)
(***************************************************************************)
VARIABLES
    pc,          \* "connect": in the first read_state; "read": in the read_state
                 \* of the current phase's loop; "turn": in the Play branch, at
                 \* match trick.trick_format(); "panicked": the thread has panicked
    phase,       \* the phase block main() is in
    me,          \* the bot's player, NoPlayer until located in the roster
    game_state,  \* the latest snapshot read_state returned
    msg,         \* the kind of the latest envelope read_message read
    sent,        \* what socket.send wrote since that envelope was read
    turn,        \* SpecTrick: the hand, format and decomposition being resolved
    result       \* the result of the latest resolution (Spec: its outcome only)

vars == <<pc, phase, me, game_state, msg, sent, turn, result>>

Phases == <<"Initialize", "Draw", "Exchange", "Play">>

PhaseRank(ph) == CHOOSE i \in 1..Len(Phases) : Phases[i] = ph

Init ==
    /\ pc = "connect"
    /\ phase = "Initialize"
    /\ me = NoPlayer
    /\ game_state = NoState
    /\ msg = "none"
    /\ sent = <<>>
    /\ turn = NoTurn
    /\ result = NoResult

\* the state after a snapshot has been handled
Handled(p, ph, m, s, out) ==
    /\ pc' = p
    /\ phase' = ph
    /\ me' = m
    /\ game_state' = s
    /\ msg' = "State"
    /\ sent' = out
    /\ result' = NoResult
    /\ UNCHANGED turn

\* i.players().iter().find(|p| p.name == argv.name)
FindMe(players) ==
    LET hits == {i \in DOMAIN players : players[i].name = Name}
    IN  IF hits = {} THEN NoPlayer
        ELSE players[CHOOSE i \in hits : \A j \in hits : i <= j]

\* main, from the first read_state to the end of the let me = if .. else ..
FirstState ==
    /\ pc = "connect"
    /\ \E s \in GameStates :
          IF s.phase = "Initialize"
          THEN IF FindMe(s.players) # NoPlayer
               THEN Handled("read", phase, FindMe(s.players), s, <<Chat(JoinedText), Ready>>)
               \* Ready is sent before find(..).unwrap() panics
               ELSE Handled("panicked", phase, me, s, <<Chat(JoinedText), Ready>>)
          ELSE Handled("panicked", phase, me, s,
                       <<Chat(JoinedText), Chat(AlreadyStartedText)>>)

\* DrawBody drawing a second card without waiting for the next snapshot
DrawBodyDrawsTwice(s) ==
    IF s.next_draw.ok
    THEN IF s.next_draw.id = me.id
         THEN [ok |-> TRUE, out |-> <<DrawCard, DrawCard>>]
         ELSE [ok |-> TRUE, out |-> <<>>]
    ELSE IF s.next_draw.err = "nobody has bid yet"
         THEN [ok |-> TRUE, out |-> <<>>]
         ELSE [ok |-> FALSE, out |-> <<>>]

\* DrawBody with the turn test dropped: a draw on every player's turn
DrawBodyAnyTurn(s) ==
    IF s.next_draw.ok
    THEN [ok |-> TRUE, out |-> <<DrawCard>>]
    ELSE IF s.next_draw.err = "nobody has bid yet"
         THEN [ok |-> TRUE, out |-> <<>>]
         ELSE [ok |-> FALSE, out |-> <<>>]

\* DrawBody with the error text not compared: every Err waits
DrawBodyAnyErrWaits(s) ==
    IF s.next_draw.ok
    THEN IF s.next_draw.id = me.id
         THEN [ok |-> TRUE, out |-> <<DrawCard>>]
         ELSE [ok |-> TRUE, out |-> <<>>]
    ELSE [ok |-> TRUE, out |-> <<>>]

\* the body of the Draw loop for a Draw snapshot: what it sends, or a panic
DrawBody(s) ==
    IF s.next_draw.ok
    THEN IF s.next_draw.id = me.id
         THEN [ok |-> TRUE, out |-> <<DrawCard>>]
         ELSE [ok |-> TRUE, out |-> <<>>]
    ELSE IF s.next_draw.err = "nobody has bid yet"
         THEN [ok |-> TRUE, out |-> <<>>]
         ELSE [ok |-> FALSE, out |-> <<>>]

\* what Spec keeps of a resolution: whether and where it ended, and the play
Outcome(o) == [NoResult EXCEPT !.ok = o.ok, !.at = o.at, !.play = o.play]

\* the body of the Play loop for a Play snapshot; the hand, format and
\* decomposition the snapshot carries for the bot's turn are read here
\* (hands.get(me.id) is taken to find the bot's hand)
PlayBody(s) ==
    IF s.next_player.some /\ s.next_player.id = me.id
    THEN \E t \in CtlTurns : \E o \in PlayTurn(t) :
            /\ pc' = IF o.ok THEN "read" ELSE "panicked"
            /\ phase' = "Play"
            /\ game_state' = s
            /\ msg' = "State"
            /\ sent' = IF o.ok THEN <<PlayCards(o.play)>> ELSE <<>>
            /\ result' = Outcome(o)
            /\ UNCHANGED <<me, turn>>
    ELSE Handled("read", "Play", me, s, <<>>)

\* InitializeLoop looking the bot up again in every Initialize snapshot
InitializeLoopRelocates ==
    /\ pc = "read"
    /\ phase = "Initialize"
    /\ \E s \in GameStates :
          IF s.phase = "Draw"
          THEN Handled(IF DrawBody(s).ok THEN "read" ELSE "panicked", "Draw", me, s,
                       DrawBody(s).out)
          ELSE IF s.phase = "Initialize"
          THEN Handled("read", phase, FindMe(s.players), s, <<>>)
          ELSE Handled("panicked", phase, me, s, <<>>)

\* InitializeLoop signalling readiness again after every settings change
InitializeLoopReadies ==
    /\ pc = "read"
    /\ phase = "Initialize"
    /\ \E s \in GameStates :
          IF s.phase = "Draw"
          THEN Handled(IF DrawBody(s).ok THEN "read" ELSE "panicked", "Draw", me, s,
                       DrawBody(s).out)
          ELSE IF s.phase = "Initialize"
          THEN Handled("read", phase, me, s, <<Ready>>)
          ELSE Handled("panicked", phase, me, s, <<>>)

\* InitializeLoop with a catch-all else that waits instead of panicking
InitializeLoopWaits ==
    /\ pc = "read"
    /\ phase = "Initialize"
    /\ \E s \in GameStates :
          IF s.phase = "Draw"
          THEN Handled(IF DrawBody(s).ok THEN "read" ELSE "panicked", "Draw", me, s,
                       DrawBody(s).out)
          ELSE Handled("read", phase, me, s, <<>>)

\* the loop of the Initialize block; a Draw snapshot breaks out of it and is
\* handled by the first pass of the Draw loop
InitializeLoop ==
    /\ pc = "read"
    /\ phase = "Initialize"
    /\ \E s \in GameStates :
          IF s.phase = "Draw"
          THEN Handled(IF DrawBody(s).ok THEN "read" ELSE "panicked", "Draw", me, s,
                       DrawBody(s).out)
          ELSE IF s.phase = "Initialize"
          THEN Handled("read", phase, me, s, <<>>)
          ELSE Handled("panicked", phase, me, s, <<>>)

\* DrawLoop waiting on an Initialize snapshot too, as the Initialize loop does
DrawLoopWaitsOnInitialize ==
    /\ pc = "read"
    /\ phase = "Draw"
    /\ \E s \in GameStates :
          IF s.phase = "Draw"
          THEN Handled(IF DrawBody(s).ok THEN "read" ELSE "panicked", phase, me, s,
                       DrawBody(s).out)
          ELSE IF s.phase = "Exchange"
          THEN Handled("read", "Exchange", me, s, <<>>)
          ELSE IF s.phase = "Initialize"
          THEN Handled("read", phase, me, s, <<>>)
          ELSE Handled("panicked", phase, me, s, <<>>)

\* DrawLoop handling the phases statelessly: it follows the snapshot's phase
DrawLoopStateless ==
    /\ pc = "read"
    /\ phase = "Draw"
    /\ \E s \in GameStates :
          IF s.phase = "Draw"
          THEN Handled(IF DrawBody(s).ok THEN "read" ELSE "panicked", phase, me, s,
                       DrawBody(s).out)
          ELSE IF s.phase \in {"Exchange", "Initialize"}
          THEN Handled("read", s.phase, me, s, <<>>)
          ELSE Handled("panicked", phase, me, s, <<>>)

\* the loop of the Draw block; an Exchange snapshot breaks out of it
DrawLoop ==
    /\ pc = "read"
    /\ phase = "Draw"
    /\ \E s \in GameStates :
          IF s.phase = "Draw"
          THEN Handled(IF DrawBody(s).ok THEN "read" ELSE "panicked", phase, me, s,
                       DrawBody(s).out)
          ELSE IF s.phase = "Exchange"
          THEN Handled("read", "Exchange", me, s, <<>>)
          ELSE Handled("panicked", phase, me, s, <<>>)

\* ExchangeLoop announcing each Exchange snapshot it waits on with a chat
ExchangeLoopChatty ==
    /\ pc = "read"
    /\ phase = "Exchange"
    /\ \E s \in GameStates :
          IF s.phase = "Play"
          THEN PlayBody(s)
          ELSE IF s.phase = "Exchange"
          THEN Handled("read", phase, me, s, <<Chat(JoinedText)>>)
          ELSE Handled("panicked", phase, me, s, <<>>)

\* the loop of the Exchange block; a Play snapshot breaks out of it and is
\* handled by the first pass of the Play loop
ExchangeLoop ==
    /\ pc = "read"
    /\ phase = "Exchange"
    /\ \E s \in GameStates :
          IF s.phase = "Play"
          THEN PlayBody(s)
          ELSE IF s.phase = "Exchange"
          THEN Handled("read", phase, me, s, <<>>)
          ELSE Handled("panicked", phase, me, s, <<>>)

\* PlayLoop returning from main when the game is over: an Initialize snapshot
\* (the next game's lobby) breaks out of the loop instead of panicking
PlayLoopFinishes ==
    /\ pc = "read"
    /\ phase = "Play"
    /\ \E s \in GameStates :
          IF s.phase = "Play"
          THEN PlayBody(s)
          ELSE IF s.phase = "Initialize"
          THEN Handled("done", phase, me, s, <<>>)
          ELSE Handled("panicked", phase, me, s, <<>>)

\* the Play loop
PlayLoop ==
    /\ pc = "read"
    /\ phase = "Play"
    /\ \E s \in GameStates :
          IF s.phase = "Play"
          THEN PlayBody(s)
          ELSE Handled("panicked", phase, me, s, <<>>)

\* ReadError without the panic: the error is chatted and the bot reads on
ReadErrorReadsOn ==
    /\ pc \in {"connect", "read"}
    /\ msg' = "Error"
    /\ sent' = <<Chat(ErrorText)>>
    /\ result' = NoResult
    /\ UNCHANGED <<pc, phase, me, game_state, turn>>

\* read_message: GameMessage::Error(err): a chat message, then panic
ReadError ==
    /\ pc \in {"connect", "read"}
    /\ pc' = "panicked"
    /\ msg' = "Error"
    /\ sent' = <<Chat(ErrorText)>>
    /\ result' = NoResult
    /\ UNCHANGED <<phase, me, game_state, turn>>

\* ReadOther with the catch-all arm panicking, as read_message's does
ReadOtherFatal ==
    /\ pc \in {"connect", "read"}
    /\ pc' = "panicked"
    /\ msg' = "Other"
    /\ sent' = <<>>
    /\ result' = NoResult
    /\ UNCHANGED <<phase, me, game_state, turn>>

\* read_state: any other GameMessage is dropped and the loop reads again
ReadOther ==
    /\ pc \in {"connect", "read"}
    /\ msg' = "Other"
    /\ sent' = <<>>
    /\ result' = NoResult
    /\ UNCHANGED <<pc, phase, me, game_state, turn>>

\* read_message: a frame that is not binary, or does not decode: panic
ReadUnexpected ==
    /\ pc \in {"connect", "read"}
    /\ pc' = "panicked"
    /\ msg' = "Unexpected"
    /\ sent' = <<>>
    /\ result' = NoResult
    /\ UNCHANGED <<phase, me, game_state, turn>>

Next ==
    \/ FirstState
    \/ InitializeLoop
    \/ DrawLoop
    \/ ExchangeLoop
    \/ PlayLoop
    \/ ReadError
    \/ ReadOther
    \/ ReadUnexpected

Spec == Init /\ [][Next]_vars

(***************************************************************************)
(* The resolution of one turn                                              *)
(***************************************************************************)
\* a Play snapshot naming the bot as next player has been read in the Play loop
InitTrick ==
    /\ pc = "turn"
    /\ phase = "Play"
    /\ me = [id |-> 1, name |-> Name]
    /\ game_state = State("Play", <<>>, ErrDraw(""), SomeID(1))
    /\ msg = "State"
    /\ sent = <<>>
    /\ turn \in LeadTurns(HandsUpTo(MaxHand)) \cup FollowTurns(HandsUpTo(MaxHand))
    /\ result = NoResult

Resolve(o) ==
    /\ result' = o
    /\ pc' = IF o.ok THEN "read" ELSE "panicked"
    /\ sent' = IF o.ok THEN <<PlayCards(o.play)>> ELSE <<>>
    /\ UNCHANGED <<phase, me, game_state, msg, turn>>

Lead ==
    /\ pc = "turn"
    /\ ~turn.trick_format.some
    /\ \E o \in LeadTrick(turn) : Resolve(o)

Follow ==
    /\ pc = "turn"
    /\ turn.trick_format.some
    /\ \E o \in FollowTrick(turn) : Resolve(o)

NextTrick ==
    \/ Lead
    \/ Follow

SpecTrick == InitTrick /\ [][NextTrick]_vars

(***************************************************************************)
(* Properties of the phase controller (Spec)                               *)
(***************************************************************************)
\* a game action among the messages written
GameActions(out) ==
    {i \in DOMAIN out : out[i].type \in {"Ready", "DrawCard", "PlayCards"}}

\* the snapshot phase sp is out of order for a controller at p in phase ph
OutOfOrder(p, ph, sp) ==
    IF p = "connect" THEN sp # "Initialize"
    ELSE PhaseRank(sp) \notin {PhaseRank(ph), PhaseRank(ph) + 1}

\* C1: phase monotonicity. Whatever snapshots are delivered, no step takes the
\* controller to an earlier phase in Initialize < Draw < Exchange < Play.
C1_PhaseMonotonic == [][PhaseRank(phase') >= PhaseRank(phase)]_vars

\* C1 witness: an Initialize snapshot arrived in Draw and the controller did
\* not go back
C1_Witness ==
    /\ phase = "Draw"
    /\ msg = "State"
    /\ game_state.phase = "Initialize"

\* C2: a snapshot whose phase is neither the current phase nor its successor,
\* and a first snapshot that is not Initialize, is fatal: the thread panics in
\* the phase it was in, no Ready, DrawCard or PlayCards is written for that
\* snapshot, and no step is taken after a panic.
C2_ViolationFatal ==
    [][/\ pc # "panicked"
       /\ (msg' = "State" /\ OutOfOrder(pc, phase, game_state'.phase))
            => /\ pc' = "panicked"
               /\ phase' = phase
               /\ GameActions(sent') = {}]_vars

\* C2 witness: an Exchange snapshot (a skipped phase) arrived in Initialize and
\* the thread panicked
C2_Witness ==
    /\ pc = "panicked"
    /\ phase = "Initialize"
    /\ me # NoPlayer
    /\ msg = "State"
    /\ game_state.phase = "Exchange"
    /\ sent = <<>>

\* the latest envelope was a Draw snapshot handled in the Draw phase
DrawHandled ==
    /\ phase = "Draw"
    /\ msg = "State"
    /\ game_state.phase = "Draw"

\* C8: in Draw, a Draw snapshot whose next drawer is the bot gets exactly one
\* DrawCard, one whose next drawer is another player gets nothing, and the
\* controller stays in Draw, reading on.
C8_DrawOnOwnTurn ==
    (DrawHandled /\ game_state.next_draw.ok)
        => /\ pc = "read"
           /\ sent = IF game_state.next_draw.id = me.id THEN <<DrawCard>> ELSE <<>>

\* C8 witness: both cases are reached, the bot's turn here
C8_Witness ==
    /\ DrawHandled
    /\ game_state.next_draw.ok
    /\ game_state.next_draw.id = me.id
    /\ sent = <<DrawCard>>
    /\ pc = "read"

\* C9: in Draw, a next-drawer query failing with "nobody has bid yet" sends
\* nothing and reads on in Draw; any other failure panics.
C9_NoBidsYetWaits ==
    (DrawHandled /\ ~game_state.next_draw.ok)
        => /\ sent = <<>>
           /\ pc = IF game_state.next_draw.err = "nobody has bid yet"
                   THEN "read" ELSE "panicked"

\* C9 witness: the retriable wait
C9_Witness ==
    /\ DrawHandled
    /\ ~game_state.next_draw.ok
    /\ game_state.next_draw.err = "nobody has bid yet"
    /\ pc = "read"

\* the latest envelope was a Play snapshot handled in the Play phase
PlayHandled ==
    /\ phase = "Play"
    /\ msg = "State"
    /\ game_state.phase = "Play"

\* C7: in Play, a Play snapshot whose next player is the bot gets exactly one
\* PlayCards, and one whose next player is another player or unresolved gets
\* nothing.
C7_OnePlayPerOwnTurn ==
    PlayHandled
        => IF game_state.next_player.some /\ game_state.next_player.id = me.id
           THEN Len(sent) = 1 /\ sent[1].type = "PlayCards"
           ELSE sent = <<>>

\* C10: Ready is never sent for a first snapshot whose roster holds no player
\* with the bot's name.
C10_ReadyOnlyWhenLocated ==
    (/\ msg = "State"
     /\ me = NoPlayer
     /\ game_state.phase = "Initialize"
     /\ FindMe(game_state.players) = NoPlayer)
        => \A i \in DOMAIN sent : sent[i] # Ready

\* C11 as stated: while the controller is in Exchange nothing at all is
\* written to the socket, no Ready, DrawCard, PlayCards or chat.
C11_ExchangeNoMessage == phase = "Exchange" => sent = <<>>

\* C11, amended: a step that leaves the controller in Exchange, the step that
\* enters Exchange included, writes nothing to the socket for a snapshot or an
\* ignored envelope, however many Exchange snapshots arrive; the one message
\* it can write there is the chat that precedes the panic on an Error
\* envelope; and the controller leaves Exchange only for Play, on a Play
\* snapshot.
C11_ExchangeSilent ==
    [][/\ phase' = "Exchange"
            => sent' = IF msg' = "Error" THEN <<Chat(ErrorText)>> ELSE <<>>
       /\ (phase = "Exchange" /\ phase' # phase)
            => /\ phase' = "Play"
               /\ msg' = "State"
               /\ game_state'.phase = "Play"]_vars

\* C11 witness: an Exchange snapshot handled in Exchange, the bot reading on
C11_Witness ==
    /\ phase = "Exchange"
    /\ pc = "read"
    /\ msg = "State"
    /\ game_state.phase = "Exchange"
    /\ sent = <<>>

\* C12: an Error envelope, in whatever phase it is read, gets exactly one
\* message, the chat that tells the error, and the thread then panics where it
\* stands; after it no envelope is processed and nothing more is written, so
\* no Ready, DrawCard or PlayCards follows the Error envelope.
C12_ErrorFatal ==
    [][/\ msg' = "Error"
            => /\ pc' = "panicked"
               /\ sent' = <<Chat(ErrorText)>>
               /\ phase' = phase
               /\ me' = me
       /\ ~(pc = "panicked" /\ msg = "Error")]_vars

\* C12 witness: an Error envelope read in the Play loop
C12_Witness ==
    /\ msg = "Error"
    /\ phase = "Play"
    /\ pc = "panicked"
    /\ sent = <<Chat(ErrorText)>>
    /\ game_state.phase = "Play"

\* C13: an envelope that is neither a snapshot nor an error changes nothing:
\* the phase, the bot's identity and the snapshot held stay as they were,
\* nothing is written in response, and the bot goes on reading where it was.
C13_OtherIgnored ==
    [][msg' = "Other"
         => /\ phase' = phase
            /\ me' = me
            /\ game_state' = game_state
            /\ pc' = pc
            /\ sent' = <<>>]_vars

\* C13 witness: a chat echo read in the Draw loop, right after a draw
C13_Witness ==
    /\ msg = "Other"
    /\ phase = "Draw"
    /\ pc = "read"
    /\ me # NoPlayer
    /\ game_state.phase = "Draw"
    /\ game_state.next_draw = OkDraw(me.id)

\* C14: no phase transition is inferred locally. Whenever the bot is reading
\* in a phase loop, the controller's phase is the phase of the latest snapshot
\* received; and the phase changes only in the step that receives a snapshot
\* of the new phase, the first such after a snapshot of another phase, so
\* writing Ready, DrawCard or PlayCards never changes it.
C14_PhaseFollowsSnapshot ==
    [][/\ pc' = "read" => phase' = game_state'.phase
       /\ phase' # phase
            => /\ msg' = "State"
               /\ game_state'.phase = phase'
               /\ game_state.phase # phase']_vars

\* C14 witness: a play was sent for a Play snapshot and the controller is
\* still in the phase of that snapshot
C14_Witness ==
    /\ pc = "read"
    /\ phase = "Play"
    /\ game_state.phase = "Play"
    /\ GameActions(sent) # {}

\* C15: there is no successful end. The thread is only ever in a read (the
\* first one or a loop's) or panicked, never past the loops; once in Play it stays in Play, a further
\* Play snapshot leaving it reading there unless its resolution panicked; and
\* nothing is written except in the step that reads a snapshot or an Error
\* envelope, so with no envelope arriving the bot waits and writes nothing.
C15_NoSuccessfulEnd ==
    [][/\ pc' \in {"connect", "read", "panicked"}
       /\ phase = "Play" => phase' = "Play"
       /\ (phase = "Play" /\ msg' = "State" /\ game_state'.phase = "Play")
            => \/ pc' = "read"
               \/ pc' = "panicked" /\ ~result'.ok /\ result'.at # "none"
       /\ sent' # <<>> => msg' \in {"State", "Error"}]_vars

\* C15 witness: in Play, a Play snapshot of a trick that has ended; the bot
\* wrote nothing and reads on
C15_Witness ==
    /\ phase = "Play"
    /\ pc = "read"
    /\ msg = "State"
    /\ game_state.phase = "Play"
    /\ game_state.next_player = NoneID
    /\ sent = <<>>

\* C16: the bot's identity is fixed once. It is set only by the first
\* snapshot, an Initialize snapshot, to the first roster entry that carries
\* the bot's name; once set no step changes it, whatever rosters later
\* snapshots carry; and the turn tests of Draw and Play compare with that id:
\* a DrawCard or PlayCards is written only for a snapshot that names it.
C16_IdentityFixed ==
    [][/\ me # NoPlayer => me' = me
       /\ me' # me
            => /\ pc = "connect"
               /\ msg' = "State"
               /\ game_state'.phase = "Initialize"
               /\ \E i \in DOMAIN game_state'.players :
                     /\ game_state'.players[i] = me'
                     /\ me'.name = Name
                     /\ \A j \in 1..(i - 1) : game_state'.players[j].name # Name
       /\ (pc = "read" /\ phase \in {"Initialize", "Draw"} /\ msg' = "State"
             /\ game_state'.phase = "Draw" /\ game_state'.next_draw.ok)
            => (sent' = <<DrawCard>>) = (game_state'.next_draw.id = me.id)
       /\ (pc = "read" /\ msg' = "State" /\ game_state'.phase = "Play"
             /\ sent' # <<>>)
            => game_state'.next_player = SomeID(me.id)]_vars

\* C16 witness: after the bot was located, an Initialize snapshot arrived in
\* which two players carry the bot's name and the first of them is not the
\* bot; the identity is the one located first
C16_Witness ==
    /\ pc = "read"
    /\ phase = "Initialize"
    /\ me # NoPlayer
    /\ msg = "State"
    /\ Len(game_state.players) = 2
    /\ \A i \in DOMAIN game_state.players : game_state.players[i].name = Name
    /\ game_state.players[1] # me

\* the Ready messages among the messages written
Readies(out) == {i \in DOMAIN out : out[i] = Ready}

\* C19: Ready is sent at most once over a run. A step writes Ready only when
\* it handles the first snapshot, then exactly once, and the first read is
\* never returned to; Initialize snapshots received later, while waiting for
\* Draw, cause no Ready.
C19_ReadyOnce ==
    [][/\ Readies(sent') # {}
            => /\ pc = "connect"
               /\ pc' # "connect"
               /\ msg' = "State"
               /\ Cardinality(Readies(sent')) = 1
       /\ pc' = "connect" => pc = "connect"]_vars

\* C19 witness: a later Initialize snapshot, handled while waiting for Draw,
\* for which nothing was sent
C19_Witness ==
    /\ pc = "read"
    /\ phase = "Initialize"
    /\ me # NoPlayer
    /\ msg = "State"
    /\ game_state.phase = "Initialize"
    /\ sent = <<>>

\* C20: every game action is sent in its own phase and in reaction to a
\* snapshot. Of what was written since the latest envelope, a Ready was
\* written with the controller in Initialize, a DrawCard in Draw, a PlayCards
\* in Play; game actions are written only for a snapshot, never for another
\* envelope; and at most one is written per snapshot, hence at most one
\* between two consecutive snapshots.
C20_ActionsInPhase ==
    /\ \A i \in DOMAIN sent :
          /\ sent[i].type = "Ready" => phase = "Initialize"
          /\ sent[i].type = "DrawCard" => phase = "Draw"
          /\ sent[i].type = "PlayCards" => phase = "Play"
    /\ GameActions(sent) # {} => msg = "State"
    /\ Cardinality(GameActions(sent)) <= 1

\* C20 witness: one PlayCards, written in Play for a Play snapshot
C20_Witness ==
    /\ phase = "Play"
    /\ msg = "State"
    /\ Len(sent) = 1
    /\ sent[1].type = "PlayCards"
    /\ BagSize(sent[1].cards) = 1

(***************************************************************************)
(* Properties of the trick resolution (SpecTrick)                          *)
(***************************************************************************)
\* the bot was following a trick and the resolution has run
Followed == turn.trick_format.some /\ pc # "turn"

\* the bot was following a trick and a play was sent
FollowSent == Followed /\ pc = "read" /\ Len(sent) = 1 /\ sent[1].type = "PlayCards"

Suited == CardsInTrickSuit(turn.hand, turn.trick_format)

NumRequired == FormatSize(turn.trick_format)

\* the cards of play p that are in the required suit
SuitedPart(p) == CardsInTrickSuit(p, turn.trick_format)

\* C3: totality. Following a trick with a non-empty hand and a format no larger
\* than the hand, the resolution does not abort and the PlayCards sent holds
\* exactly the required number of cards, each within its count in the hand.
C3_Totality ==
    (Followed /\ BagSize(turn.hand) >= 1 /\ NumRequired <= BagSize(turn.hand))
        => /\ FollowSent
           /\ BagSize(sent[1].cards) = NumRequired
           /\ BagLeq(sent[1].cards, turn.hand)

\* C4: forced exhaustion. When the hand holds at most the required number of
\* cards of the required suit, the play sent holds every one of them.
C4_ForcedExhaustion ==
    (FollowSent /\ BagSize(Suited) <= NumRequired)
        => BagLeq(Suited, sent[1].cards)

\* C5: legality preference. When some decomposition is fully matched by the
\* hand's cards of the required suit, the suited part of the play sent holds a
\* complete match of a decomposition.
C5_LegalityPreference ==
    (/\ FollowSent
     /\ \E i \in DOMAIN turn.decomposition :
           CheckPlay(Suited, turn.decomposition[i]) # {})
        => \E i \in DOMAIN turn.decomposition :
             \E m \in CheckPlay(Suited, turn.decomposition[i]) :
                BagLeq(m, SuitedPart(sent[1].cards))

\* C6: the matching assignment is made of cards of the required suit only, and
\* the play sent holds a card outside the suit only if the hand holds fewer
\* suited cards than required.
C6_OffSuitOnlyToFill ==
    FollowSent
        => /\ result.matching_play.some => BagLeq(result.matching_play.cards, Suited)
           /\ sent[1].cards # SuitedPart(sent[1].cards)
                => BagSize(Suited) < NumRequired

\* the bot was leading a trick and the resolution has run
Led == ~turn.trick_format.some /\ pc # "turn"

\* C17: leading a trick (the bot's turn, no format yet), the bot sends one
\* PlayCards holding exactly one card, a card its hand in that snapshot holds
\* at least once.
C17_LeadOneCard ==
    Led => /\ pc = "read"
           /\ Len(sent) = 1
           /\ sent[1].type = "PlayCards"
           /\ BagSize(sent[1].cards) = 1
           /\ BagLeq(sent[1].cards, turn.hand)

\* C18: following a trick, the cards selected before the fill with off-suit
\* cards never number more than the format requires, so the count still to
\* add, required size minus cards selected, is never negative; also when no
\* decomposition was matched and all the suited cards were selected.
C18_FillCountNonNegative ==
    Followed => BagSize(result.selected) <= NumRequired

====
